---- MODULE Spec2Model ----
(***************************************************************************)
(* Model of the product-quantized embedding matrix chunk of                *)
(* finalfusion-rust: src/chunks/storage/quantized.rs.                      *)
(*                                                                         *)
(* A stream is a sequence of bytes (0..255) with a cursor; position p      *)
(* addresses stream[p + 1].  An f32 is carried as its IEEE-754 bit         *)
(* pattern, a matrix as its shape and its row-major data vector (as        *)
(* ndarray's Array2 built by from_shape_vec), an Option as a sequence of   *)
(* length 0 (None) or 1 (Some).                                            *)
(***************************************************************************)
EXTENDS Integers, Sequences, FiniteSets, TLC

(***************************************************************************)
(* Bounds of the model.                                                    *)
(***************************************************************************)
MaxM == 2
MaxSub == 2
MaxK == 2
MaxRows == 2
MaxStart == 4

(***************************************************************************)
(* Sequence helpers.                                                       *)
(***************************************************************************)
RECURSIVE Flatten(_)
Flatten(ss) == IF ss = <<>> THEN <<>> ELSE Head(ss) \o Flatten(Tail(ss))

Zeros(n) == [i \in 1..n |-> 0]

Slice(s, p, n) == [i \in 1..n |-> s[p + i]]

None == <<>>
Some(x) == <<x>>
IsSome(o) == Len(o) = 1
Unwrap(o) == o[1]

(***************************************************************************)
(* Little-endian integers (byteorder's LittleEndian).  Byte i of x is      *)
(* (x / 256^i) mod 256, which is also what the `as u32` casts of           *)
(* write_chunk keep of a wider value.  Values of the model stay below      *)
(* 2^31, so the upper four bytes of a u64 are zero.                        *)
(***************************************************************************)
SizeU8 == 1
SizeU32 == 4
SizeU64 == 8
SizeF32 == 4

ByteOf(x, i) == IF i >= 4 THEN 0 ELSE (x \div (256 ^ i)) % 256

ToLE(x, w) == [i \in 1..w |-> ByteOf(x, i - 1)]

RECURSIVE FromLE(_, _, _)
FromLE(s, p, w) == IF w = 0 THEN 0 ELSE s[p + 1] + 256 * FromLE(s, p + 1, w - 1)

\* Whether w bytes can be read at position p (read_exact fails otherwise).
Avail(s, p, w) == p + w <= Len(s)

\* The 32 bits of an f32, carried as the two's complement integer with the
\* same bits (the sign bit of the float is the sign of the integer).
F32ToLE(b) ==
    IF b >= 0 THEN ToLE(b, 4)
    ELSE LET low == b + (2 ^ 30) + (2 ^ 30)
         IN  <<ByteOf(low, 0), ByteOf(low, 1), ByteOf(low, 2), ByteOf(low, 3) + 128>>

F32FromLE(s, p) ==
    IF s[p + 4] < 128 THEN FromLE(s, p, 4)
    ELSE (s[p + 1] + 256 * s[p + 2] + 65536 * s[p + 3]
          + 16777216 * (s[p + 4] - 128)) - (2 ^ 30) - (2 ^ 30)

(***************************************************************************)
(* f32 values.  F32Bits gives the bit pattern of a non-negative integer    *)
(* below 2^24 (exactly representable), F32Val the integer of such a        *)
(* pattern; F32Mul multiplies two such floats (the product of the values   *)
(* the model uses is again exactly representable).                         *)
(***************************************************************************)
RECURSIVE Log2(_)
Log2(v) == IF v < 2 THEN 0 ELSE 1 + Log2(v \div 2)

F32Bits(v) ==
    IF v = 0 THEN 0
    ELSE LET e == Log2(v)
         IN  (e + 127) * (2 ^ 23) + (v - 2 ^ e) * (2 ^ (23 - e))

F32Val(b) ==
    IF b = 0 THEN 0
    ELSE LET e == (b \div (2 ^ 23)) - 127
         IN  2 ^ e + (b % (2 ^ 23)) \div (2 ^ (23 - e))

F32Mul(a, b) == F32Bits(F32Val(a) * F32Val(b))

(***************************************************************************)
(* ndarray: Array2::from_shape_vec fails with a shape error unless the     *)
(* vector holds exactly rows * cols elements.                              *)
(***************************************************************************)
Matrix(r, c, v) == [rows |-> r, cols |-> c, data |-> v]

from_shape_vec(r, c, v) ==
    IF Len(v) = r * c THEN [ok |-> TRUE, val |-> Matrix(r, c, v)]
    ELSE [ok |-> FALSE, val |-> Matrix(0, 0, <<>>)]

\* Row i (0-based) of a matrix.
Row(m, i) == Slice(m.data, i * m.cols, m.cols)

\* Element (i, j) (0-based) of a matrix.
At(m, i, j) == m.data[i * m.cols + j + 1]

(***************************************************************************)
(* reductive's PQ<f32>: the optional projection matrix and the             *)
(* sub-quantizer codebooks.                                                *)
(***************************************************************************)
PQ(projection, quantizers) ==
    [projection |-> projection, quantizers |-> quantizers]

quantized_len(q) == Len(q.quantizers)

n_quantizer_centroids(q) == q.quantizers[1].rows

reconstructed_len(q) == Len(q.quantizers) * q.quantizers[1].cols

\* PQ::new panics on an empty list of sub-quantizers.  Whether it also
\* panics on a projection matrix whose shape is not the reconstructed length
\* squared is decided inside reductive: strict says which.
PQ_new_accepts(projection, quantizers, strict) ==
    /\ Len(quantizers) > 0
    /\ (strict /\ IsSome(projection)) =>
          LET d == Len(quantizers) * quantizers[1].cols
          IN  Unwrap(projection).rows = d /\ Unwrap(projection).cols = d

\* Concatenation of the codebook rows that a code row selects.
reconstruct_vector(q, codes) ==
    Flatten([m \in 1..Len(q.quantizers) |-> Row(q.quantizers[m], codes[m])])

(***************************************************************************)
(* QuantizedArray.                                                         *)
(***************************************************************************)
QuantizedArray(quantizer, quantized, norms) ==
    [quantizer |-> quantizer, quantized |-> quantized, norms |-> norms]

\* The values the model's matrices are filled with: the floats 0.0 .. 3.0
\* for codebooks and projections, 1.0 .. 3.0 for norms.
FillF32(seed, n) == [i \in 1..n |-> F32Bits((seed + i) % 4)]

FillNorms(seed, n) == [i \in 1..n |-> F32Bits(1 + ((seed + i) % 3))]

FillCodes(seed, n, k) == [i \in 1..n |-> (seed + i + (i \div 3)) % k]

\* The result of Quantize::quantize_using for sub-quantizer count M,
\* sub-dimension sub, k centroids and n rows: a trained quantizer that
\* satisfies the Quantizer invariants, the code matrix and the norms.
quantize_using(M, sub, k, n, proj, normalize) ==
    LET d == M * sub
        seed == n + k
        quantizers == [m \in 1..M |-> Matrix(k, sub, FillF32(seed + m, k * sub))]
        projection == IF proj THEN Some(Matrix(d, d, FillF32(seed + 1, d * d)))
                      ELSE None
        quantizer == PQ(projection, quantizers)
        quantized == Matrix(n, M, FillCodes(seed, n * M, k))
        norms == IF normalize THEN Some(FillNorms(seed, n)) ELSE None
    IN  QuantizedArray(quantizer, quantized, norms)

QuantizedArrays ==
    { quantize_using(M, sub, k, n, proj, normalize) :
        M \in 1..MaxM, sub \in 1..MaxSub, k \in 1..MaxK, n \in 0..MaxRows,
        proj \in BOOLEAN, normalize \in BOOLEAN }

(***************************************************************************)
(* util::padding::<T>(pos): the number of bytes that bring pos to the next *)
(* multiple of the width of T.                                             *)
(***************************************************************************)
padding(width, pos) == (width - (pos % width)) % width

(***************************************************************************)
(* Chunk identifiers and element type identifiers.                         *)
(***************************************************************************)
QuantizedArrayId == 4
U8TypeId == 1
F32TypeId == 10

(***************************************************************************)
(* Cursor<Vec<u8>>: writing bs at position p overwrites what is there and  *)
(* extends the vector, zero-filling a gap between its end and p.           *)
(***************************************************************************)
WriteAt(s, p, bs) ==
    LET n == IF p + Len(bs) > Len(s) THEN p + Len(bs) ELSE Len(s)
    IN  [i \in 1..n |->
            IF i > p /\ i <= p + Len(bs) THEN bs[i - p]
            ELSE IF i <= Len(s) THEN s[i] ELSE 0]

(***************************************************************************)
(* write_chunk.                                                            *)
(***************************************************************************)
BoolInt(b) == IF b THEN 1 ELSE 0

WriteF32s(v) == Flatten([i \in 1..Len(v) |-> F32ToLE(v[i])])

\* write_n_padding without the final reduction modulo the width.
write_n_padding_unreduced(p) == SizeF32 - ((p + SizeU32) % SizeF32)

\* The padding write_chunk computes: from the position right after the
\* chunk identifier, the chunk starting at p.
write_n_padding(p) == padding(SizeF32, p + SizeU32)

\* chunk_size without the padding term.
chunk_size_without_padding(a, n_padding) ==
    SizeU32 + SizeU32 + SizeU32 + SizeU32 + SizeU32 + SizeU64 + 2 * SizeU32
    + BoolInt(IsSome(a.quantizer.projection))
        * reconstructed_len(a.quantizer) * reconstructed_len(a.quantizer) * SizeF32
    + quantized_len(a.quantizer) * n_quantizer_centroids(a.quantizer)
        * (reconstructed_len(a.quantizer) \div quantized_len(a.quantizer)) * SizeF32
    + BoolInt(IsSome(a.norms)) * a.quantized.rows * SizeF32
    + a.quantized.rows * quantized_len(a.quantizer)

\* The payload length write_chunk declares.
chunk_size(a, n_padding) ==
    SizeU32 + SizeU32 + SizeU32 + SizeU32 + SizeU32 + SizeU64 + 2 * SizeU32
    + n_padding
    + BoolInt(IsSome(a.quantizer.projection))
        * reconstructed_len(a.quantizer) * reconstructed_len(a.quantizer) * SizeF32
    + quantized_len(a.quantizer) * n_quantizer_centroids(a.quantizer)
        * (reconstructed_len(a.quantizer) \div quantized_len(a.quantizer)) * SizeF32
    + BoolInt(IsSome(a.norms)) * a.quantized.rows * SizeF32
    + a.quantized.rows * quantized_len(a.quantizer)

\* The flags, dimensions and type identifiers, in the order written.
write_header(a) ==
    ToLE(BoolInt(IsSome(a.quantizer.projection)), SizeU32)
    \o ToLE(BoolInt(IsSome(a.norms)), SizeU32)
    \o ToLE(quantized_len(a.quantizer), SizeU32)
    \o ToLE(reconstructed_len(a.quantizer), SizeU32)
    \o ToLE(n_quantizer_centroids(a.quantizer), SizeU32)
    \o ToLE(a.quantized.rows, SizeU64)
    \o ToLE(U8TypeId, SizeU32)
    \o ToLE(F32TypeId, SizeU32)

write_projection(a) ==
    IF IsSome(a.quantizer.projection)
    THEN WriteF32s(Unwrap(a.quantizer.projection).data)
    ELSE <<>>

\* write_subquantizers, last sub-quantizer first.
write_subquantizers_reversed(a) ==
    LET M == Len(a.quantizer.quantizers)
    IN  Flatten([m \in 1..M |-> WriteF32s(a.quantizer.quantizers[M + 1 - m].data)])

write_subquantizers(a) ==
    Flatten([m \in 1..Len(a.quantizer.quantizers) |->
                WriteF32s(a.quantizer.quantizers[m].data)])

write_norms(a) == IF IsSome(a.norms) THEN WriteF32s(Unwrap(a.norms)) ELSE <<>>

write_quantized(a) == a.quantized.data

\* What write_chunk, started at position p, writes before the first array:
\* the identifier, the length, the header and the padding.
write_prefix(a, p) ==
    LET n_padding == write_n_padding(p)
    IN  ToLE(QuantizedArrayId, SizeU32)
        \o ToLE(chunk_size(a, n_padding), SizeU64)
        \o write_header(a)
        \o Zeros(n_padding)

\* Everything write_chunk writes when it starts at position p.
write_chunk(a, p) ==
    write_prefix(a, p)
    \o write_projection(a)
    \o write_subquantizers(a)
    \o write_norms(a)
    \o write_quantized(a)

(***************************************************************************)
(* read_chunk.  A result is                                                *)
(*   kind   "ok", "io", "type", "shape" (the error kinds) or "panic";      *)
(*   arr    Some(the QuantizedArray) when kind is "ok", None otherwise;    *)
(*   start  the position read_chunk started at;                            *)
(*   at     the cursor on return ("ok", "type", "shape"), the position of  *)
(*          the read that failed ("io");                                   *)
(*   npad   the padding skipped, f32pos the position after the skip        *)
(*          (both -1 when read_chunk returned before the skip).            *)
(***************************************************************************)
Result(kind, arr, start, at, npad, f32pos) ==
    [kind |-> kind, arr |-> arr, start |-> start, at |-> at,
     npad |-> npad, f32pos |-> f32pos]

\* ChunkIdentifier::ensure_chunk_type and TypeId::ensure_data_type: read a
\* u32 and compare it with the identifier expected.
ensure_id(s, p, id) ==
    IF ~Avail(s, p, SizeU32) THEN [kind |-> "io", at |-> p]
    ELSE IF FromLE(s, p, SizeU32) # id THEN [kind |-> "type", at |-> p + SizeU32]
    ELSE [kind |-> "ok", at |-> p + SizeU32]

ensure_chunk_type(s, p, id) == ensure_id(s, p, id)

ensure_data_type(s, p, id) == ensure_id(s, p, id)

ReadF32s(s, p, n) == [i \in 1..n |-> F32FromLE(s, p + (i - 1) * SizeF32)]

\* The part of read_chunk after the padding has been skipped: the stream s
\* is at position pos; the header held the flags projection and read_norms,
\* h.quantized_len (M), h.reconstructed_len (d), n_centroids (k) and
\* n_embeddings (n).
read_arrays(s, start, npad, pos, h, strict) ==
    LET projection == h.projection
        read_norms == h.read_norms
        n_centroids == h.n_centroids
        n_embeddings == h.n_embeddings
        projLen == IF projection THEN h.reconstructed_len * h.reconstructed_len ELSE 0
        projEnd == pos + projLen * SizeF32
        projRes == from_shape_vec(h.reconstructed_len, h.reconstructed_len,
                                  ReadF32s(s, pos, projLen))
        \* the division is only evaluated inside the loop over the sub-quantizers
        sub == IF h.quantized_len = 0 THEN 0 ELSE h.reconstructed_len \div h.quantized_len
        subLen == n_centroids * sub
        subEnd == projEnd + h.quantized_len * subLen * SizeF32
        subRes(m) == from_shape_vec(n_centroids, sub,
                        ReadF32s(s, projEnd + (m - 1) * subLen * SizeF32, subLen))
        normsLen == IF read_norms THEN n_embeddings ELSE 0
        normsEnd == subEnd + normsLen * SizeF32
        codesLen == n_embeddings * h.quantized_len
        codesEnd == normsEnd + codesLen * SizeU8
        codesRes == from_shape_vec(n_embeddings, h.quantized_len,
                                   Slice(s, normsEnd, codesLen))
        Fail(kind, at) == Result(kind, None, start, at, npad, pos)
    IN  IF ~Avail(s, pos, projLen * SizeF32) THEN Fail("io", pos)
        ELSE IF projection /\ ~projRes.ok THEN Fail("shape", projEnd)
        ELSE IF \E m \in 1..h.quantized_len :
                    ~Avail(s, projEnd, m * subLen * SizeF32)
             THEN Fail("io", projEnd)
        ELSE IF \E m \in 1..h.quantized_len : ~subRes(m).ok THEN Fail("shape", subEnd)
        ELSE IF ~Avail(s, subEnd, normsLen * SizeF32) THEN Fail("io", subEnd)
        ELSE IF ~Avail(s, normsEnd, codesLen * SizeU8) THEN Fail("io", normsEnd)
        ELSE IF ~codesRes.ok THEN Fail("shape", codesEnd)
        ELSE
        LET proj == IF projection THEN Some(projRes.val) ELSE None
            quantizers == [m \in 1..h.quantized_len |-> subRes(m).val]
            norms == IF read_norms THEN Some(ReadF32s(s, subEnd, normsLen)) ELSE None
        IN  IF ~PQ_new_accepts(proj, quantizers, strict)
            THEN Result("panic", None, start, codesEnd, npad, pos)
            ELSE Result("ok",
                        Some(QuantizedArray(PQ(proj, quantizers), codesRes.val, norms)),
                        start, codesEnd, npad, pos)

\* The offsets of the header fields from the start of the chunk.
OffLen == SizeU32
OffProjection == OffLen + SizeU64
OffNorms == OffProjection + SizeU32
OffQuantizedLen == OffNorms + SizeU32
OffReconstructedLen == OffQuantizedLen + SizeU32
OffNCentroids == OffReconstructedLen + SizeU32
OffNEmbeddings == OffNCentroids + SizeU32
OffCodeType == OffNEmbeddings + SizeU64
OffFloatType == OffCodeType + SizeU32
OffPadding == OffFloatType + SizeU32

\* read_n_padding for the width of a u64.
read_n_padding_wide(pos) == padding(SizeU64, pos)

\* The padding read_chunk skips: from its position after the two element
\* type identifiers.
read_n_padding(pos) == padding(SizeF32, pos)

\* read_chunk after the chunk identifier has been accepted.
read_fields(s, p, strict) ==
    LET Fail(kind, at) == Result(kind, None, p, at, -1, -1)
        ctr == ensure_data_type(s, p + OffCodeType, U8TypeId)
        ftr == ensure_data_type(s, p + OffFloatType, F32TypeId)
        pos == p + OffPadding
        n_padding == read_n_padding(pos)
    IN  \* chunk length: read and discarded
        IF ~Avail(s, p + OffLen, SizeU64) THEN Fail("io", p + OffLen)
        ELSE IF ~Avail(s, p + OffProjection, SizeU32) THEN Fail("io", p + OffProjection)
        ELSE IF ~Avail(s, p + OffNorms, SizeU32) THEN Fail("io", p + OffNorms)
        ELSE IF ~Avail(s, p + OffQuantizedLen, SizeU32)
             THEN Fail("io", p + OffQuantizedLen)
        ELSE IF ~Avail(s, p + OffReconstructedLen, SizeU32)
             THEN Fail("io", p + OffReconstructedLen)
        ELSE IF ~Avail(s, p + OffNCentroids, SizeU32) THEN Fail("io", p + OffNCentroids)
        ELSE IF ~Avail(s, p + OffNEmbeddings, SizeU64)
             THEN Fail("io", p + OffNEmbeddings)
        ELSE IF ctr.kind # "ok" THEN Fail(ctr.kind, ctr.at)
        ELSE IF ftr.kind # "ok" THEN Fail(ftr.kind, ftr.at)
        ELSE read_arrays(s, p, n_padding, pos + n_padding,
                [projection |-> FromLE(s, p + OffProjection, SizeU32) # 0,
                 read_norms |-> FromLE(s, p + OffNorms, SizeU32) # 0,
                 quantized_len |-> FromLE(s, p + OffQuantizedLen, SizeU32),
                 reconstructed_len |-> FromLE(s, p + OffReconstructedLen, SizeU32),
                 n_centroids |-> FromLE(s, p + OffNCentroids, SizeU32),
                 n_embeddings |-> FromLE(s, p + OffNEmbeddings, SizeU64)],
                strict)

\* read_chunk without the check of the chunk identifier.
read_chunk_unchecked(s, p, strict) ==
    IF ~Avail(s, p, SizeU32) THEN Result("io", None, p, p, -1, -1)
    ELSE read_fields(s, p, strict)

\* read_chunk that holds the declared length against the rest of the stream.
read_chunk_checks_len(s, p, strict) ==
    LET idr == ensure_chunk_type(s, p, QuantizedArrayId)
    IN  IF idr.kind # "ok" THEN Result(idr.kind, None, p, idr.at, -1, -1)
        ELSE IF Avail(s, p + OffLen, SizeU64)
                /\ FromLE(s, p + OffLen, SizeU64) # Len(s) - (p + OffLen + SizeU64)
             THEN Result("shape", None, p, p + OffLen + SizeU64, -1, -1)
        ELSE read_fields(s, p, strict)

read_chunk(s, p, strict) ==
    LET idr == ensure_chunk_type(s, p, QuantizedArrayId)
    IN  IF idr.kind # "ok" THEN Result(idr.kind, None, p, idr.at, -1, -1)
        ELSE read_fields(s, p, strict)

(***************************************************************************)
(* Storage for QuantizedArray.                                             *)
(***************************************************************************)
\* embedding that scales every row by the first norm.
embedding_first_norm(a, idx) ==
    LET reconstructed == reconstruct_vector(a.quantizer, Row(a.quantized, idx))
    IN  IF IsSome(a.norms)
        THEN [j \in 1..Len(reconstructed) |->
                 F32Mul(reconstructed[j], Unwrap(a.norms)[1])]
        ELSE reconstructed

embedding(a, idx) ==
    LET reconstructed == reconstruct_vector(a.quantizer, Row(a.quantized, idx))
    IN  IF IsSome(a.norms)
        THEN [j \in 1..Len(reconstructed) |->
                 F32Mul(reconstructed[j], Unwrap(a.norms)[idx + 1])]
        ELSE reconstructed

shape(a) == <<a.quantized.rows, reconstructed_len(a.quantizer)>>

(***************************************************************************)
(* The state: a QuantizedArray produced by quantization, a seekable        *)
(* stream and its cursor, and the results of the calls made so far.        *)
(*   wlog     what the write_chunk call did (where it started and ended,   *)
(*            the padding it wrote and where the f32 data began);          *)
(*   tampered the field of the written chunk that was overwritten before   *)
(*            it is read back ("none" for the chunk as written);           *)
(*   res      the result of the read_chunk call;                           *)
(*   shp      the result of shape() on the decoded array;                  *)
(*   emb      the result of the last embedding() call, and of the call     *)
(*            before it when that was for the same row.                    *)
(***************************************************************************)
VARIABLES arr, stream, pos, wlog, tampered, res, shp, emb

vars == <<arr, stream, pos, wlog, tampered, res, shp, emb>>

NoWrite == [done |-> FALSE, start |-> 0, npad |-> 0, f32pos |-> 0, end |-> 0]

NoRes == Result("none", None, 0, 0, -1, -1)

NoEmb == [idx |-> -1, vec |-> <<>>, prev |-> None]

\* What precedes the chunk in the stream.
Filler(n) == [i \in 1..n |-> 170]

Init ==
    /\ arr \in QuantizedArrays
    /\ \E p0 \in 0..MaxStart : stream = Filler(p0) /\ pos = p0
    /\ wlog = NoWrite
    /\ tampered = "none"
    /\ res = NoRes
    /\ shp = None
    /\ emb = NoEmb

\* arr.write_chunk(&mut stream)
WriteChunk ==
    /\ ~wlog.done
    /\ LET bytes == write_chunk(arr, pos)
           npad == write_n_padding(pos)
       IN  /\ stream' = WriteAt(stream, pos, bytes)
           /\ pos' = pos + Len(bytes)
           /\ wlog' = [done |-> TRUE, start |-> pos, npad |-> npad,
                       f32pos |-> pos + Len(write_prefix(arr, pos)),
                       end |-> pos + Len(bytes)]
    /\ emb' = NoEmb
    /\ UNCHANGED <<arr, tampered, res, shp>>

\* stream.seek(SeekFrom::Start(start of the chunk))
SeekStart ==
    /\ wlog.done
    /\ res = NoRes
    /\ pos # wlog.start
    /\ pos' = wlog.start
    /\ UNCHANGED <<arr, stream, wlog, tampered, res, shp, emb>>

\* The streams read_chunk is given besides the chunk as written: the chunk
\* with one header field, its last byte or its length changed.
TamperNames ==
    {"tag", "len", "projection", "norms", "quantized_len", "quantized_len_zero",
     "reconstructed_len", "n_centroids", "n_embeddings", "code_type",
     "float_type", "code", "cut_tag", "cut_header", "cut_end"}

Tamper(s, start, name) ==
    LET Put(off, w, v) == WriteAt(s, start + off, ToLE(v, w))
        Get(off, w) == FromLE(s, start + off, w)
    IN  CASE name = "tag" -> Put(0, SizeU32, QuantizedArrayId + 1)
          [] name = "len" -> Put(OffLen, SizeU64, 0)
          [] name = "projection" ->
                Put(OffProjection, SizeU32, 1 - Get(OffProjection, SizeU32))
          [] name = "norms" -> Put(OffNorms, SizeU32, 1 - Get(OffNorms, SizeU32))
          [] name = "quantized_len" ->
                Put(OffQuantizedLen, SizeU32, Get(OffQuantizedLen, SizeU32) + 1)
          [] name = "quantized_len_zero" -> Put(OffQuantizedLen, SizeU32, 0)
          [] name = "reconstructed_len" ->
                Put(OffReconstructedLen, SizeU32, Get(OffReconstructedLen, SizeU32) + 1)
          [] name = "n_centroids" ->
                Put(OffNCentroids, SizeU32, Get(OffNCentroids, SizeU32) + 1)
          [] name = "n_embeddings" ->
                Put(OffNEmbeddings, SizeU64, Get(OffNEmbeddings, SizeU64) + 1)
          [] name = "code_type" -> Put(OffCodeType, SizeU32, F32TypeId)
          [] name = "float_type" -> Put(OffFloatType, SizeU32, U8TypeId)
          [] name = "code" -> WriteAt(s, Len(s) - 1, <<255>>)
          [] name = "cut_tag" -> SubSeq(s, 1, start + 2)
          [] name = "cut_header" -> SubSeq(s, 1, start + OffCodeType + 2)
          [] name = "cut_end" -> SubSeq(s, 1, Len(s) - 1)

TamperChunk(name) ==
    /\ wlog.done
    /\ tampered = "none"
    /\ res = NoRes
    /\ pos = wlog.end
    /\ name = "code" => arr.quantized.rows > 0
    /\ stream' = Tamper(stream, wlog.start, name)
    /\ tampered' = name
    /\ UNCHANGED <<arr, pos, wlog, res, shp, emb>>

\* QuantizedArray::read_chunk(&mut stream), the cursor at the start of the
\* chunk.  After an I/O error the cursor is where the failed read left it:
\* at the position of that read or at the end of the stream.
ReadChunk ==
    /\ wlog.done
    /\ res = NoRes
    /\ pos = wlog.start
    /\ \E strict \in BOOLEAN :
          /\ res' = read_chunk(stream, pos, strict)
          /\ IF res'.kind = "io"
             THEN pos' \in {res'.at, Len(stream)}
             ELSE pos' = res'.at
    /\ UNCHANGED <<arr, stream, wlog, tampered, shp, emb>>

\* decoded.shape()
Shape ==
    /\ res.kind = "ok"
    /\ shp = None
    /\ shp' = Some(shape(Unwrap(res.arr)))
    /\ UNCHANGED <<arr, stream, pos, wlog, tampered, res, emb>>

\* arr.embedding(idx)
Embedding(idx) ==
    /\ ~wlog.done
    /\ emb.idx = idx => ~IsSome(emb.prev)
    /\ emb' = [idx |-> idx, vec |-> embedding(arr, idx),
               prev |-> IF emb.idx = idx THEN Some(emb.vec) ELSE None]
    /\ UNCHANGED <<arr, stream, pos, wlog, tampered, res, shp>>

EmbeddingCall == \E idx \in 0..(arr.quantized.rows - 1) : Embedding(idx)

Next ==
    \/ WriteChunk
    \/ SeekStart
    \/ \E name \in TamperNames : TamperChunk(name)
    \/ ReadChunk
    \/ Shape
    \/ EmbeddingCall

Spec == Init /\ [][Next]_vars

(***************************************************************************)
(* The claims.                                                             *)
(***************************************************************************)
\* A header field of the chunk read_chunk was started on.
Hdr(off, w) == FromLE(stream, res.start + off, w)

\* read_chunk got past the header and the element type identifiers.
HeaderRead == res.kind \in {"ok", "shape", "panic"}

Decoded == Unwrap(res.arr)

\* C1: the u64 payload length write_chunk writes after the chunk identifier
\* equals the number of bytes it writes after that length field, for every
\* array (norms or not, projection or not) and every start position.
C1_DeclaredLength ==
    (wlog.done /\ tampered = "none") =>
        /\ FromLE(stream, wlog.start + OffLen, SizeU64)
              = wlog.end - (wlog.start + OffLen + SizeU64)
        /\ FromLE(stream, wlog.start + OffLen, SizeU64)
              = Len(stream) - (wlog.start + OffLen + SizeU64)

C1_Witness ==
    /\ wlog.done /\ tampered = "none"
    /\ wlog.npad = 3
    /\ IsSome(arr.norms) /\ IsSome(arr.quantizer.projection)
    /\ arr.quantized.rows = MaxRows

\* C2: write_chunk followed by read_chunk from the position where the write
\* started succeeds and returns an array whose quantizer (projection and
\* codebooks, in order) and code matrix equal the original's.
C2_RoundTrip ==
    (res.kind # "none" /\ tampered = "none") =>
        /\ res.kind = "ok"
        /\ Decoded.quantizer = arr.quantizer
        /\ Decoded.quantized = arr.quantized

C2_Witness ==
    /\ res.kind = "ok" /\ tampered = "none"
    /\ IsSome(arr.quantizer.projection)
    /\ Len(arr.quantizer.quantizers) = MaxM
    /\ arr.quantizer.quantizers[1] # arr.quantizer.quantizers[MaxM]
    /\ arr.quantized.rows = MaxRows
    /\ wlog.npad > 0

\* C3: read_chunk fails with a shape error, and constructs no array, when
\* the reconstructed length d of the header is not divisible by the
\* sub-quantizer count M.
C3_ShapeError ==
    (HeaderRead /\ Hdr(OffQuantizedLen, SizeU32) # 0
       /\ Hdr(OffReconstructedLen, SizeU32) % Hdr(OffQuantizedLen, SizeU32) # 0)
    => (res.kind = "shape" /\ res.arr = None)

\* The data-model invariants of a decoded array, the header holding M
\* sub-quantizers, reconstructed length d, k centroids and n rows.
DataModelInvariants(a, M, d, k, n) ==
    /\ a.quantized.rows = n /\ a.quantized.cols = M
    /\ IsSome(a.norms) => Len(Unwrap(a.norms)) = n
    /\ Len(a.quantizer.quantizers) = M
    /\ M # 0 /\ d % M = 0
    /\ \A m \in 1..M :
          /\ a.quantizer.quantizers[m].rows = k
          /\ a.quantizer.quantizers[m].cols * M = d
    /\ \A i \in 1..Len(a.quantized.data) : a.quantized.data[i] < k

\* C4: every read_chunk call returns an error without an array, or an array
\* that satisfies the data-model invariants.
C4_DecodedInvariants ==
    res.kind # "none" =>
        \/ res.kind \in {"io", "type", "shape"} /\ res.arr = None
        \/ /\ res.kind = "ok"
           /\ DataModelInvariants(Decoded, Hdr(OffQuantizedLen, SizeU32),
                                  Hdr(OffReconstructedLen, SizeU32),
                                  Hdr(OffNCentroids, SizeU32),
                                  Hdr(OffNEmbeddings, SizeU64))

\* C5: read_chunk returns a type-mismatch error and no array when the chunk
\* identifier is not QuantizedArray (having read nothing but the
\* identifier), and when one of the element type identifiers is not the
\* one supported (before the padding is skipped or any array is read).
C5_TypeMismatch ==
    res.kind # "none" =>
        /\ (Avail(stream, res.start, SizeU32)
              /\ Hdr(0, SizeU32) # QuantizedArrayId)
           => (res.kind = "type" /\ res.arr = None
                 /\ res.at = res.start + SizeU32 /\ pos = res.at)
        /\ (Avail(stream, res.start, OffPadding)
              /\ Hdr(0, SizeU32) = QuantizedArrayId
              /\ (Hdr(OffCodeType, SizeU32) # U8TypeId
                    \/ Hdr(OffFloatType, SizeU32) # F32TypeId))
           => (res.kind = "type" /\ res.arr = None
                 /\ res.npad = -1 /\ res.f32pos = -1
                 /\ res.at <= res.start + OffPadding /\ pos = res.at)

C5_Witness ==
    /\ res.kind = "type"
    /\ tampered = "float_type"
    /\ Hdr(OffCodeType, SizeU32) = U8TypeId
    /\ res.at = res.start + OffPadding

\* C6: shape() of a decoded array is (n, d), the row count and the
\* reconstructed length of the chunk header.
C6_Shape ==
    IsSome(shp) =>
        Unwrap(shp) = <<Hdr(OffNEmbeddings, SizeU64), Hdr(OffReconstructedLen, SizeU32)>>

\* C7: when write_chunk starts at a multiple of 4, the first f32 it writes
\* begins at a multiple of 4 and the padding is 0 to 3 zero bytes; read_chunk
\* started at a multiple of 4 begins to read f32 data at a multiple of 4.
C7_Alignment ==
    /\ (wlog.done /\ wlog.start % SizeF32 = 0) =>
          /\ wlog.f32pos % SizeF32 = 0
          /\ wlog.npad \in 0..3
          /\ wlog.f32pos = wlog.start + OffPadding + wlog.npad
          /\ \A i \in 1..wlog.npad : stream[wlog.start + OffPadding + i] = 0
    /\ (res.f32pos # -1 /\ res.start % SizeF32 = 0) => res.f32pos % SizeF32 = 0

C7_Witness ==
    /\ wlog.done /\ wlog.start = 4
    /\ res.kind = "ok" /\ res.f32pos = wlog.f32pos
    /\ IsSome(arr.quantizer.projection)

\* C8: embedding(i) is the concatenation, for m = 0..M-1 in order, of row
\* codes[i][m] of codebook m, every component multiplied by norms[i] when
\* norms are present; the call leaves the array unchanged and a second call
\* for the same row returns the same vector.
C8_EmbeddingValue ==
    emb.idx # -1 =>
        LET i == emb.idx
            M == Len(arr.quantizer.quantizers)
            sub == arr.quantizer.quantizers[1].cols
            Component(j) ==
                LET m == j \div sub
                    code == At(arr.quantized, i, m)
                IN  At(arr.quantizer.quantizers[m + 1], code, j % sub)
        IN  /\ Len(emb.vec) = M * sub
            /\ \A j \in 0..(M * sub - 1) :
                  emb.vec[j + 1] =
                      IF IsSome(arr.norms)
                      THEN F32Bits(F32Val(Component(j)) * F32Val(Unwrap(arr.norms)[i + 1]))
                      ELSE Component(j)
            /\ IsSome(emb.prev) => Unwrap(emb.prev) = emb.vec

C8_Embedding ==
    /\ []C8_EmbeddingValue
    /\ [][EmbeddingCall => arr' = arr]_vars

C8_Witness ==
    /\ emb.idx = 1
    /\ IsSome(emb.prev)
    /\ IsSome(arr.norms) /\ Unwrap(arr.norms)[1] # Unwrap(arr.norms)[2]
    /\ Len(arr.quantizer.quantizers) = MaxM
    /\ \E j \in 1..Len(emb.vec) : emb.vec[j] # 0

\* C9: for every start position, the padding write_chunk writes equals the
\* padding read_chunk skips when it reads the chunk from the same start.
C9_PaddingAgrees ==
    (wlog.done /\ res.npad # -1 /\ res.start = wlog.start) =>
        /\ res.npad = wlog.npad
        /\ res.f32pos = wlog.f32pos

C9_Witness ==
    /\ wlog.done /\ wlog.start % SizeF32 = 1
    /\ res.kind = "ok" /\ res.npad = 3

\* C10: a successful read_chunk of a written chunk, started at its first
\* byte, consumes 12 + the declared length bytes and leaves the cursor where
\* write_chunk left it; the declared length itself is discarded, so a chunk
\* whose length field was overwritten decodes to the same array.
C10_Consumed ==
    /\ (res.kind = "ok" /\ tampered = "none") =>
          /\ res.at = res.start + OffLen + SizeU64 + Hdr(OffLen, SizeU64)
          /\ res.at = wlog.end
          /\ pos = wlog.end
    /\ (res.kind # "none" /\ tampered = "len") =>
          /\ res.kind = "ok"
          /\ Hdr(OffLen, SizeU64) # wlog.end - (wlog.start + OffLen + SizeU64)
          /\ res.at = wlog.end /\ pos = wlog.end
          /\ Decoded.quantizer = arr.quantizer
          /\ Decoded.quantized = arr.quantized
          /\ Decoded.norms = arr.norms

C10_Witness ==
    /\ res.kind = "ok" /\ tampered = "len"
    /\ IsSome(arr.norms)
    /\ arr.quantized.rows = MaxRows
    /\ wlog.start # 0

====
